---- MODULE Spec2Model ----
(***************************************************************************)
(* A model of the download service of URLtoFILE: the streaming endpoint    *)
(* websocket_download and the plain endpoint api_download_url of           *)
(* src/app/app.py, the coroutine download_audio of                          *)
(* src/app/utils/download_yt.py with its progress_hook, the Job Store      *)
(* (DownloadManager), the Connection Registry (active_connections) and the *)
(* asyncio event loop on which all of them run.                            *)
(*                                                                         *)
(* The event loop is one thread.  A coroutine runs without interruption    *)
(* from one await to the next; an action of this model is the code between *)
(* two awaits.  `await ws.send_json(m)` hands m to the transport and then  *)
(* may or may not suspend the coroutine: at every such point the model     *)
(* lets either the same coroutine continue or another ready task run.      *)
(* ydl.extract_info is a plain blocking call made on the loop's thread:    *)
(* while it runs, `running` names the handler that holds the thread.       *)
(***************************************************************************)
EXTENDS Integers, Sequences, FiniteSets, TLC

(***************************************************************************)
(* Bounds of the model.                                                    *)
(***************************************************************************)
MaxConns == 2
MaxReqs == 1
MaxChunks == 1
MaxJobs == 2

(***************************************************************************)
(* Program constants.                                                      *)
(***************************************************************************)
MAX_FILE_SIZE_MB == 50
BytesPerMB == 1048576
SUPPORTED_PLATFORMS == <<"youtube", "youtu.be">>
COMING_SOON_PLATFORMS == <<"vk.com", "soundcloud.com", "spotify.com">>

Conns == 1..MaxConns
Reqs == (MaxConns + 1)..(MaxConns + MaxReqs)
Handlers == Conns \cup Reqs
NoOne == 0

(***************************************************************************)
(* Strings.  str.lower(), str.upper(), `in` and str.strip() of Python, on  *)
(* TLA+ strings, character by character.  The strings of the model are     *)
(* ASCII strings.                                                          *)
(***************************************************************************)
UpperLetters == "ABCDEFGHIJKLMNOPQRSTUVWXYZ"
LowerLetters == "abcdefghijklmnopqrstuvwxyz"

\* The ASCII characters that str.strip() removes and str.isspace() accepts:
\* space, \t, \n, \r, \f, and the control characters 0x0B (\v) and 0x1C to
\* 0x1F, which stand in the last five strings as themselves.  (Outside ASCII
\* Python counts 0x85, 0xA0 and the Unicode spaces as well.)
Whitespace ==
    {" ", "\t", "\n", "\r", "\f", "", "", "", "", ""}

CharAt(s, i) == SubSeq(s, i, i)

LowerChar(c) ==
    IF \E i \in 1..26 : CharAt(UpperLetters, i) = c
    THEN CharAt(LowerLetters, CHOOSE i \in 1..26 : CharAt(UpperLetters, i) = c)
    ELSE c

UpperChar(c) ==
    IF \E i \in 1..26 : CharAt(LowerLetters, i) = c
    THEN CharAt(UpperLetters, CHOOSE i \in 1..26 : CharAt(LowerLetters, i) = c)
    ELSE c

RECURSIVE Lower(_)
Lower(s) ==
    IF Len(s) = 0 THEN ""
    ELSE LowerChar(CharAt(s, 1)) \o Lower(SubSeq(s, 2, Len(s)))

RECURSIVE Upper(_)
Upper(s) ==
    IF Len(s) = 0 THEN ""
    ELSE UpperChar(CharAt(s, 1)) \o Upper(SubSeq(s, 2, Len(s)))

\* sub in s
Contains(sub, s) ==
    \E i \in 1..(Len(s) - Len(sub) + 1) : SubSeq(s, i, i + Len(sub) - 1) = sub

\* not url or not url.strip()
IsBlank(s) == \A i \in 1..Len(s) : CharAt(s, i) \in Whitespace

AnyPlatform(list, url) == \E i \in 1..Len(list) : Contains(list[i], Lower(url))

is_supported_platform(url) == AnyPlatform(SUPPORTED_PLATFORMS, url)

is_coming_soon(url) == AnyPlatform(COMING_SOON_PLATFORMS, url)

\* get_platform_from_url returning the platform without .upper()
get_platform_from_url_as_listed(url) ==
    IF AnyPlatform(SUPPORTED_PLATFORMS, url) THEN "YouTube"
    ELSE IF AnyPlatform(COMING_SOON_PLATFORMS, url)
    THEN COMING_SOON_PLATFORMS[
             CHOOSE i \in 1..Len(COMING_SOON_PLATFORMS) :
                 /\ Contains(COMING_SOON_PLATFORMS[i], Lower(url))
                 /\ \A j \in 1..(i - 1) :
                        ~Contains(COMING_SOON_PLATFORMS[j], Lower(url))]
    ELSE "Unknown"

get_platform_from_url(url) ==
    IF AnyPlatform(SUPPORTED_PLATFORMS, url) THEN "YouTube"
    ELSE IF AnyPlatform(COMING_SOON_PLATFORMS, url)
    THEN Upper(COMING_SOON_PLATFORMS[
             CHOOSE i \in 1..Len(COMING_SOON_PLATFORMS) :
                 /\ Contains(COMING_SOON_PLATFORMS[i], Lower(url))
                 /\ \A j \in 1..(i - 1) :
                        ~Contains(COMING_SOON_PLATFORMS[j], Lower(url))])
    ELSE "Unknown"

(***************************************************************************)
(* Inputs.  A request is a pair <<url, maxsize>>.                          *)
(***************************************************************************)
Urls ==
    { "", " \f", "https://youtu.be/abc123", "https://vk.com/video1",
      "https://VK.com/YouTube", "https://soundcloud.com/a?u=spotify.com",
      "https://example.com/a" }
MaxSizes == { -1, 0, 1, MAX_FILE_SIZE_MB, MAX_FILE_SIZE_MB + 1 }
AllInputs == Urls \X MaxSizes
LifecycleInputs ==
    { <<"https://youtu.be/abc123", MAX_FILE_SIZE_MB>>,
      <<"https://vk.com/video1", MAX_FILE_SIZE_MB>>,
      <<"https://youtu.be/abc123", MAX_FILE_SIZE_MB + 1>> }
NoInput == <<"", 0>>

\* What the extractor can report and produce (the External Extractor is the
\* environment of this program).  The info dict of a video has a title or has
\* none.
TitleInfo(has, v) == [has |-> has, v |-> v]
Titles == { TitleInfo(TRUE, "song") }
AllTitles ==
    Titles \cup { TitleInfo(TRUE, "a:b"), TitleInfo(TRUE, ""), TitleInfo(FALSE, "") }
FileSizes == { MAX_FILE_SIZE_MB * BytesPerMB, MAX_FILE_SIZE_MB * BytesPerMB + 1 }

\* The '_percent_str' entry of a 'downloading' event: a string, None, or no
\* entry.
PercentEntry(t, v) == [t |-> t, v |-> v]
PercentStrs == { " 40.0%", " 40.5%", "N/A", "\f1e2%", "-5%", "nan" }
PercentEntries ==
    { PercentEntry("str", ps) : ps \in PercentStrs }
        \cup { PercentEntry("none", ""), PercentEntry("missing", "") }

\* The thumbnail stage: info has no thumbnail list; the last thumbnail has no
\* url; the url was fetched and `bytes` bytes written to the file (saved);
\* requests.get or raise_for_status raised (failed); the file was opened and
\* the transfer raised after `bytes` bytes (partial).
ThumbBytes == 2
ThumbUrls ==
    { "https://i.ytimg.com/vi/abc123/hq.jpg",
      "https://i.ytimg.com/vi_webp/abc123/hq.webp",
      "https://img.example.com/abc123.PNG" }

\* lines 113-117: the extension of the thumbnail file
thumb_ext(thumb_url) ==
    IF Contains("webp", Lower(thumb_url)) THEN ".webp"
    ELSE IF Contains("png", Lower(thumb_url)) THEN ".png"
    ELSE ".jpg"

ThumbOutcome(kind, ext, bytes) == [kind |-> kind, ext |-> ext, bytes |-> bytes]
ThumbOutcomes ==
    { ThumbOutcome("no_thumbnails", "", 0), ThumbOutcome("no_url", "", 0) }
        \cup { ThumbOutcome("saved", thumb_ext(u), ThumbBytes) : u \in ThumbUrls }
        \cup { ThumbOutcome("failed", thumb_ext(u), 0) : u \in ThumbUrls }
        \cup { ThumbOutcome("partial", thumb_ext(u), b) :
                   u \in ThumbUrls, b \in 0..(ThumbBytes - 1) }
SavedJpg == { ThumbOutcome("saved", ".jpg", ThumbBytes) }

VARIABLES
    pc,                 \* handler -> the await at which its coroutine stands
    req,                \* handler -> <<url, maxsize>>
    downloads,          \* DownloadManager.downloads: task_id -> record
    active_connections, \* the connection ids registered
    wire,               \* connection -> messages handed to the transport
    loopq,              \* coroutines scheduled by run_coroutine_threadsafe
    running,            \* the handler that holds the loop's thread, or NoOne
    conn,               \* connection -> "open"; "gone": a call on it raised, the
                        \* client is away; "closed": the handler closed it
    files,              \* the download folder: file name -> size in bytes
    task_id,            \* handler -> its task_id, 0: none
    title,              \* handler -> title of download_audio, "" at the start
    mp3_path,           \* handler -> mp3_path of download_audio (the name of
                        \* the file in the download folder), "": None
    thumb_path,         \* handler -> thumb_path of download_audio, "": None
    chunks,             \* handler -> 'downloading' events of its running extraction
    finished,           \* handler -> its running extraction reported 'finished'
    emitted,            \* handler -> messages emitted so far for its connection
    resp,               \* handler -> its answer to the request
    called,             \* handlers that called download_audio
    artifact,           \* handler -> the mp3 its extraction produced: the name
                        \* of the file and its size in bytes
    shutdown,           \* shutdown_event: where it stands in its loop
    call                \* the latest call of update_download or serve_file

vars == << pc, req, downloads, active_connections, wire, loopq, running, conn,
           files, task_id, title, mp3_path, thumb_path, chunks,
           finished, emitted, resp, called, artifact, shutdown, call >>

NoResp == [kind |-> "none", detail |-> "", platform |-> "", code |-> 0]

\* shutdown_event has not started.  keys: the ids in active_connections when
\* the iterator of its for loop was made; seen: the ids the iterator has
\* yielded; left: the registry as shutdown_event left it.
NoShutdown == [pc |-> "idle", keys |-> {}, seen |-> {}, left |-> {}]

\* No call yet: fn, its argument, the HTTP status it answered with (0: it
\* returned normally), the filesystem lookups it made, and the store before it.
NoCall == [fn |-> "none", arg |-> "", code |-> 0, lookups |-> 0, before |-> << >>]

NoArtifact == [name |-> "", bytes |-> 0]

\* The download folder without a file; the folder after name was written with
\* `bytes` bytes; the folder after os.remove(name).
EmptyFolder == [name \in {} |-> 0]

Written(folder, name, bytes) ==
    [n \in DOMAIN folder \cup {name} |-> IF n = name THEN bytes ELSE folder[n]]

Removed(folder, name) == [n \in DOMAIN folder \ {name} |-> folder[n]]

Init ==
    /\ pc = [h \in Handlers |-> "idle"]
    /\ req = [h \in Handlers |-> NoInput]
    /\ downloads = << >>
    /\ active_connections = {}
    /\ wire = [c \in Conns |-> << >>]
    /\ loopq = << >>
    /\ running = NoOne
    /\ conn = [c \in Conns |-> "open"]
    /\ files = EmptyFolder
    /\ task_id = [h \in Handlers |-> 0]
    /\ title = [h \in Handlers |-> ""]
    /\ mp3_path = [h \in Handlers |-> ""]
    /\ thumb_path = [h \in Handlers |-> ""]
    /\ chunks = [h \in Handlers |-> 0]
    /\ finished = [h \in Handlers |-> FALSE]
    /\ emitted = [h \in Handlers |-> 0]
    /\ resp = [h \in Handlers |-> NoResp]
    /\ called = {}
    /\ artifact = [h \in Handlers |-> NoArtifact]
    /\ shutdown = NoShutdown
    /\ call = NoCall

(***************************************************************************)
(* The Job Store.                                                          *)
(***************************************************************************)
create_download_task(url, maxsize) ==
    Append(downloads,
           [url |-> url, maxsize |-> maxsize, status |-> "created",
            progress |-> 0, mp3_path |-> "", thumb_path |-> "", error |-> "",
            updated |-> FALSE])

\* update_download that gives the fields of kwargs to every record of the store
update_download_everywhere(store, id, kwargs) ==
    [k \in DOMAIN store |->
        [f \in DOMAIN store[k] |->
            IF f = "updated" THEN TRUE
            ELSE IF f \in DOMAIN kwargs THEN kwargs[f]
            ELSE store[k][f]]]

\* DownloadManager.update_download(task_id, **kwargs) on the store `store`:
\* the record of task_id takes the fields of kwargs and a fresh updated_at;
\* an unknown task_id leaves the store alone.
update_download(store, id, kwargs) ==
    IF id \in DOMAIN store
    THEN [store EXCEPT ![id] =
             [f \in DOMAIN store[id] |->
                 IF f = "updated" THEN TRUE
                 ELSE IF f \in DOMAIN kwargs THEN kwargs[f]
                 ELSE store[id][f]]]
    ELSE store

\* update_download(task_id, status=..., progress=..., mp3_path=..., thumb_path=...)
update_completed(id, mp3, thumb) ==
    update_download(downloads, id,
                    [status |-> "completed", progress |-> 100,
                     mp3_path |-> mp3, thumb_path |-> thumb])

\* update_failed that records the error and leaves the status
update_failed_error_only(id) ==
    update_download(downloads, id, [error |-> "download_failed"])

\* update_download(task_id, status="failed", error=...)
update_failed(id) ==
    update_download(downloads, id,
                    [status |-> "failed", error |-> "download_failed"])

(***************************************************************************)
(* Messages and ws.send_json.                                              *)
(***************************************************************************)
\* The values of the "progress" entry of a message: an int of Python, a
\* float (finite, inf or nan), or no entry at all.
Number(cls, neg, m, e) == [cls |-> cls, neg |-> neg, m |-> m, e |-> e]
IntValue(n) == Number("int", n < 0, IF n < 0 THEN -n ELSE n, 0)
NaN == Number("nan", FALSE, 0, 0)
Infinity(neg) == Number("inf", neg, 0, 0)
Zero(neg) == Number("float", neg, 0, 0)
NoProgress == Number("none", FALSE, 0, 0)

\* A message with the progress value v, and a message of the coroutines,
\* whose progress values are ints.
Message(kind, v, status) ==
    [kind |-> kind, progress |-> v, status |-> status, platform |-> "",
     task_id |-> 0, thumbnail |-> FALSE]

Progress(p, status) == Message("progress", IntValue(p), status)

\* The outcomes of `await ws.send_json(m)` for handler h: TRUE, the message was
\* handed to the transport; FALSE, the call raised.  The MockWebSocket of the
\* plain endpoint accepts everything; a WebSocket raises once the client is
\* gone or the application has closed it (ws.close() on a connection whose
\* client is gone raises too, and the handler swallows it).
SendOutcomes(h) ==
    IF h \in Reqs THEN { TRUE }
    ELSE IF conn[h] # "open" THEN { FALSE }
    ELSE { TRUE, FALSE }

\* The connection's transport after a send by handler h of message m, emitted
\* as the n-th message of the job by `by` ("main": the coroutine, "hook":
\* progress_hook).
Delivered(h, m, n, by, ok) ==
    IF h \in Conns /\ ok
    THEN [wire EXCEPT ![h] = Append(@, [msg |-> m, n |-> n, by |-> by])]
    ELSE wire

Lost(h, ok) ==
    IF h \in Conns /\ ~ok /\ conn[h] = "open" THEN [conn EXCEPT ![h] = "gone"]
    ELSE conn

\* Who holds the loop's thread after handler h awaited a send: an await on the
\* MockWebSocket never suspends.
AfterAwait(h) == IF h \in Reqs THEN h ELSE NoOne

Ready(h) == running = NoOne \/ running = h

\* The count of the messages emitted for the connection of h.
Emitted(h) == IF h \in Conns THEN [emitted EXCEPT ![h] = @ + 1] ELSE emitted

\* `await ws.send_json(m)` by the coroutine of h, with `reg` the registry as
\* the coroutine has it; then pc = next.  When the send raises, every exception
\* handler on the way out (download_yt.py line 130 or 139, app.py line 183)
\* sends again, which raises again, and the coroutine arrives at the finally
\* block of websocket_download.  Each of these sends is an await: other tasks
\* may run before the coroutine is in its finally block, with the connection
\* still registered.
Send(h, m, next, ok, reg) ==
    /\ ok \in SendOutcomes(h)
    /\ wire' = Delivered(h, m, emitted[h] + 1, "main", ok)
    /\ emitted' = Emitted(h)
    /\ conn' = Lost(h, ok)
    /\ active_connections' = reg
    /\ pc' = [pc EXCEPT ![h] = IF ok THEN next ELSE "finally"]
    /\ running' = AfterAwait(h)

Response(kind, detail, platform, code) ==
    [kind |-> kind, detail |-> detail, platform |-> platform, code |-> code]

Url(h) == req[h][1]
MaxSize(h) == req[h][2]

(***************************************************************************)
(* Validation of a request, as each endpoint does it.  The result is       *)
(* "empty_url", "bad_size", "coming_soon", "unsupported" or "ok".          *)
(***************************************************************************)
\* ws_validate with `maxsize < 0` for `maxsize <= 0`
ws_validate_from_zero(url, maxsize) ==
    IF IsBlank(url) THEN "empty_url"
    ELSE IF maxsize < 0 \/ maxsize > MAX_FILE_SIZE_MB THEN "bad_size"
    ELSE IF ~is_supported_platform(url)
    THEN IF is_coming_soon(url) THEN "coming_soon" ELSE "unsupported"
    ELSE "ok"

\* ws_validate with the two answers to an unsupported url exchanged
ws_validate_exchanged(url, maxsize) ==
    IF IsBlank(url) THEN "empty_url"
    ELSE IF maxsize <= 0 \/ maxsize > MAX_FILE_SIZE_MB THEN "bad_size"
    ELSE IF ~is_supported_platform(url)
    THEN IF is_coming_soon(url) THEN "unsupported" ELSE "coming_soon"
    ELSE "ok"

\* websocket_download, lines 105-125
ws_validate(url, maxsize) ==
    IF IsBlank(url) THEN "empty_url"
    ELSE IF maxsize <= 0 \/ maxsize > MAX_FILE_SIZE_MB THEN "bad_size"
    ELSE IF ~is_supported_platform(url)
    THEN IF is_coming_soon(url) THEN "coming_soon" ELSE "unsupported"
    ELSE "ok"

\* api_download_url, lines 244-259
api_validate(url, maxsize) ==
    IF Len(url) = 0 THEN "empty_url"
    ELSE IF ~is_supported_platform(url)
    THEN IF is_coming_soon(url) THEN "coming_soon" ELSE "unsupported"
    ELSE "ok"

\* The verdicts of every request of the model, computed once.
WsVerdicts == { <<i, ws_validate(i[1], i[2])>> : i \in AllInputs }
ApiVerdicts == { <<i, api_validate(i[1], i[2])>> : i \in AllInputs }
Platforms == { <<u, get_platform_from_url(u)>> : u \in Urls }

WsVerdict(i) == (CHOOSE r \in WsVerdicts : r[1] = i)[2]
ApiVerdict(i) == (CHOOSE r \in ApiVerdicts : r[1] = i)[2]
PlatformOf(u) == (CHOOSE r \in Platforms : r[1] = u)[2]

RejectMessage(verdict, url) ==
    IF verdict = "coming_soon"
    THEN [Message("coming_soon", NoProgress, "coming_soon")
             EXCEPT !.platform = PlatformOf(url)]
    ELSE Message("error", NoProgress, verdict)

RejectResponse(verdict, url, code) ==
    IF verdict = "coming_soon"
    THEN Response("coming_soon", verdict, PlatformOf(url), 0)
    ELSE Response("error", verdict, "", code)

(***************************************************************************)
(* websocket_download: the streaming endpoint.                             *)
(***************************************************************************)
\* A client connects with url and maxsize; the handler starts and suspends in
\* `await ws.accept()`.
WsOpen(h, i) ==
    /\ UNCHANGED << shutdown, call, artifact >>
    /\ h \in Conns
    /\ pc[h] = "idle"
    /\ running = NoOne
    /\ req' = [req EXCEPT ![h] = i]
    /\ pc' = [pc EXCEPT ![h] = "accepting"]
    /\ UNCHANGED << downloads, active_connections, wire, loopq, running,
                    conn, files, task_id, title, mp3_path,
                    thumb_path, chunks, finished, emitted, resp, called >>

\* ws.accept() raises: the client went away during the handshake.  Nothing
\* was registered; the except clause of line 180 tries a send, which raises,
\* and the finally block follows.
WsAcceptFails(h) ==
    /\ UNCHANGED << shutdown, call, artifact >>
    /\ h \in Conns
    /\ pc[h] = "accepting"
    /\ Ready(h)
    /\ conn' = [conn EXCEPT ![h] = "gone"]
    /\ pc' = [pc EXCEPT ![h] = "finally"]
    /\ UNCHANGED << req, downloads, active_connections, wire, loopq, running,
                    files, task_id, title, mp3_path, thumb_path, chunks, finished,
                    emitted, resp, called >>

\* ws.accept() returns; the connection is registered; the request is rejected
\* with one message, and the handler returns through its finally block.
WsReject(h, ok) ==
    /\ UNCHANGED << shutdown, call, artifact >>
    /\ h \in Conns
    /\ pc[h] = "accepting"
    /\ Ready(h)
    /\ WsVerdict(req[h]) # "ok"
    /\ resp' = [resp EXCEPT ![h] = RejectResponse(WsVerdict(req[h]), Url(h), 0)]
    /\ Send(h, RejectMessage(WsVerdict(req[h]), Url(h)), "finally", ok,
            active_connections \cup {h})
    /\ UNCHANGED << req, downloads, loopq, files, task_id, title,
                    mp3_path, thumb_path, chunks, finished, called >>

\* ws.accept() returns; the connection is registered; the request is valid:
\* the Job is created and the first progress message (0, with the task_id) sent.
WsSubmit(h, ok) ==
    /\ UNCHANGED << shutdown, call, artifact >>
    /\ h \in Conns
    /\ pc[h] = "accepting"
    /\ Ready(h)
    /\ WsVerdict(req[h]) = "ok"
    /\ downloads' = create_download_task(Url(h), MaxSize(h))
    /\ task_id' = [task_id EXCEPT ![h] = Len(downloads) + 1]
    /\ resp' = [resp EXCEPT ![h] = Response("accepted", "ok", "YouTube", 0)]
    /\ Send(h, [Progress(0, "start") EXCEPT !.task_id = Len(downloads) + 1],
            "dl_start", ok, active_connections \cup {h})
    /\ UNCHANGED << req, loopq, files, title, mp3_path, thumb_path,
                    chunks, finished, called >>

(***************************************************************************)
(* api_download_url: the plain endpoint.  It runs download_audio with a    *)
(* MockWebSocket, whose send_json never suspends: the handler holds the    *)
(* loop's thread from its first line to its return.                        *)
(***************************************************************************)
ApiReject(h, i) ==
    /\ UNCHANGED << shutdown, call, artifact >>
    /\ h \in Reqs
    /\ pc[h] = "idle"
    /\ running = NoOne
    /\ ApiVerdict(i) # "ok"
    /\ req' = [req EXCEPT ![h] = i]
    /\ resp' = [resp EXCEPT ![h] = RejectResponse(ApiVerdict(i), i[1], 400)]
    /\ pc' = [pc EXCEPT ![h] = "done"]
    /\ UNCHANGED << downloads, active_connections, wire, loopq, running,
                    conn, files, task_id, title, mp3_path,
                    thumb_path, chunks, finished, emitted, called >>

ApiSubmit(h, i) ==
    /\ UNCHANGED << shutdown, call, artifact >>
    /\ h \in Reqs
    /\ pc[h] = "idle"
    /\ running = NoOne
    /\ ApiVerdict(i) = "ok"
    /\ req' = [req EXCEPT ![h] = i]
    /\ resp' = [resp EXCEPT ![h] = Response("accepted", "ok", "YouTube", 0)]
    /\ pc' = [pc EXCEPT ![h] = "dl_start"]
    /\ running' = h
    /\ UNCHANGED << downloads, active_connections, wire, loopq, conn, files,
                    task_id, title, mp3_path, thumb_path, chunks,
                    finished, emitted, called >>

(***************************************************************************)
(* progress_hook: d['_percent_str'] to a number, float(s) of Python on an  *)
(* ASCII string.  A finite float is the decimal numeral it was read from,  *)
(* m * 10^e with a sign, without trailing zeros in m; the numerals of the  *)
(* model have at most nine significant digits, which a double tells apart  *)
(* and keeps in order from 1e-307 upwards.                                 *)
(***************************************************************************)
Digits == "0123456789"

IsDigit(c) == \E i \in 1..10 : CharAt(Digits, i) = c

DigitValue(c) == (CHOOSE i \in 1..10 : CharAt(Digits, i) = c) - 1

\* s.replace(c, '')
RECURSIVE Remove(_, _)
Remove(s, c) ==
    IF Len(s) = 0 THEN ""
    ELSE (IF CharAt(s, 1) = c THEN "" ELSE CharAt(s, 1))
             \o Remove(SubSeq(s, 2, Len(s)), c)

\* s without the characters of cs at its two ends
RECURSIVE StripChars(_, _)
StripChars(s, cs) ==
    IF Len(s) = 0 THEN s
    ELSE IF CharAt(s, 1) \in cs THEN StripChars(SubSeq(s, 2, Len(s)), cs)
    ELSE IF CharAt(s, Len(s)) \in cs
    THEN StripChars(SubSeq(s, 1, Len(s) - 1), cs)
    ELSE s

\* s.strip()
Strip(s) == StripChars(s, Whitespace)

\* The characters that float() skips at the two ends of an ASCII string: the
\* whitespace of C, which is space, \t, \n, \r, \f and 0x0B (\v), and not the
\* control characters 0x1C to 0x1F.
FloatWhitespace == {" ", "\t", "\n", "\r", "\f", ""}

AllDigits(s) == \A i \in 1..Len(s) : IsDigit(CharAt(s, i))

RECURSIVE Numeral(_)
Numeral(s) ==
    IF Len(s) = 0 THEN 0
    ELSE 10 * Numeral(SubSeq(s, 1, Len(s) - 1)) + DigitValue(CharAt(s, Len(s)))

RECURSIVE Pow10(_)
Pow10(k) == IF k <= 0 THEN 1 ELSE 10 * Pow10(k - 1)

\* The decimal digits of n > 0, counted; 0 for n = 0.
RECURSIVE NumDigits(_)
NumDigits(n) == IF n = 0 THEN 0 ELSE 1 + NumDigits(n \div 10)

\* The largest finite double is 1.7976931348623157e308: a numeral of nine
\* digits from 1.79769314e308 on is read as inf.  Half of the smallest
\* double is 2.4703282292062327e-324: a numeral up to 2.47032822e-324 is
\* read as zero.
MaxExp10 == 308
MaxLead == 179769313
MinExp10 == -324
MinLead == 247032822
MaxExpDigits == 4

\* a without its leading zeros, b without its trailing zeros
RECURSIVE StripLeadingZeros(_)
StripLeadingZeros(s) ==
    IF Len(s) > 0 /\ CharAt(s, 1) = "0"
    THEN StripLeadingZeros(SubSeq(s, 2, Len(s)))
    ELSE s

RECURSIVE StripTrailingZeros(_)
StripTrailingZeros(s) ==
    IF Len(s) > 0 /\ CharAt(s, Len(s)) = "0"
    THEN StripTrailingZeros(SubSeq(s, 1, Len(s) - 1))
    ELSE s

\* The first position of one of the characters cs in s, 0: none
FirstOf(cs, s) ==
    IF \E k \in 1..Len(s) : CharAt(s, k) \in cs
    THEN CHOOSE k \in 1..Len(s) :
             /\ CharAt(s, k) \in cs
             /\ \A j \in 1..(k - 1) : CharAt(s, j) \notin cs
    ELSE 0

\* An underscore of a numeral stands between two digits.
ValidUnderscores(s) ==
    \A i \in 1..Len(s) :
        CharAt(s, i) = "_" =>
            /\ 1 < i /\ i < Len(s)
            /\ IsDigit(CharAt(s, i - 1))
            /\ IsDigit(CharAt(s, i + 1))

\* The finite float of the digits `whole`.`frac` with the decimal exponent x.
Finite(neg, whole, frac, x) ==
    LET all == whole \o frac
        kept == StripTrailingZeros(all)
        digits == StripLeadingZeros(kept)
        e == x - Len(frac) + (Len(all) - Len(kept))
        sci == Len(digits) + e - 1
        lead == Numeral(digits) * Pow10(9 - Len(digits))
    IN  IF Len(digits) = 0 THEN Zero(neg)
        ELSE IF sci > MaxExp10 \/ (sci = MaxExp10 /\ lead > MaxLead)
        THEN Infinity(neg)
        ELSE IF sci < MinExp10 \/ (sci = MinExp10 /\ lead <= MinLead)
        THEN Zero(neg)
        ELSE Number("float", neg, Numeral(digits), e)

\* The exponent of a numeral: its sign and digits, [ok |-> FALSE] when it is
\* not one.  An exponent of more than MaxExpDigits digits is as good as 10^4.
Exponent(s) ==
    LET signed == Len(s) > 0 /\ CharAt(s, 1) \in {"+", "-"}
        digits == IF signed THEN SubSeq(s, 2, Len(s)) ELSE s
        short == StripLeadingZeros(digits)
        size == IF Len(short) > MaxExpDigits THEN Pow10(MaxExpDigits)
                ELSE Numeral(short)
    IN  IF Len(digits) = 0 \/ ~AllDigits(digits) THEN [ok |-> FALSE, x |-> 0]
        ELSE [ok |-> TRUE,
              x |-> IF signed /\ CharAt(s, 1) = "-" THEN -size ELSE size]

\* float(s) for s without whitespace around it: an optional sign, then inf,
\* infinity or nan in any case, or digits with an optional point and an
\* optional exponent; [ok |-> FALSE] stands for ValueError.
ParseFloat(s) ==
    LET plain == Remove(s, "_")
        signed == Len(plain) > 0 /\ CharAt(plain, 1) \in {"+", "-"}
        neg == signed /\ CharAt(plain, 1) = "-"
        body == IF signed THEN SubSeq(plain, 2, Len(plain)) ELSE plain
        ePos == FirstOf({"e", "E"}, body)
        mant == IF ePos = 0 THEN body ELSE SubSeq(body, 1, ePos - 1)
        expo == IF ePos = 0 THEN [ok |-> TRUE, x |-> 0]
                ELSE Exponent(SubSeq(body, ePos + 1, Len(body)))
        dot == FirstOf({"."}, mant)
        whole == IF dot = 0 THEN mant ELSE SubSeq(mant, 1, dot - 1)
        frac == IF dot = 0 THEN "" ELSE SubSeq(mant, dot + 1, Len(mant))
    IN  IF ~ValidUnderscores(s) THEN [ok |-> FALSE, v |-> Zero(FALSE)]
        ELSE IF Lower(body) \in {"inf", "infinity"}
        THEN [ok |-> TRUE, v |-> Infinity(neg)]
        ELSE IF Lower(body) = "nan" THEN [ok |-> TRUE, v |-> NaN]
        ELSE IF /\ AllDigits(whole)
                /\ AllDigits(frac)
                /\ Len(whole) + Len(frac) > 0
                /\ expo.ok
        THEN [ok |-> TRUE, v |-> Finite(neg, whole, frac, expo.x)]
        ELSE [ok |-> FALSE, v |-> Zero(FALSE)]

\* float(s), or 0.0 on ValueError; float() skips the whitespace of C around s
FloatOrZero(s) ==
    LET r == ParseFloat(StripChars(s, FloatWhitespace))
    IN  IF r.ok THEN r.v ELSE Zero(FALSE)

percent(percent_str) == FloatOrZero(Strip(Remove(percent_str, "%")))

\* a < b of Python on two numbers
Sign(a) == IF a.cls = "inf" THEN (IF a.neg THEN -2 ELSE 2)
           ELSE IF a.m = 0 THEN 0
           ELSE IF a.neg THEN -1 ELSE 1

SmallerSize(a, b) ==
    LET da == NumDigits(a.m) + a.e
        db == NumDigits(b.m) + b.e
    IN  IF da # db THEN da < db
        ELSE a.m * Pow10(9 - NumDigits(a.m)) < b.m * Pow10(9 - NumDigits(b.m))

Less(a, b) ==
    /\ a.cls # "nan"
    /\ b.cls # "nan"
    /\ IF Sign(a) # Sign(b) THEN Sign(a) < Sign(b)
       ELSE IF Sign(a) = 1 THEN SmallerSize(a, b)
       ELSE IF Sign(a) = -1 THEN SmallerSize(b, a)
       ELSE FALSE

\* a <= b of Python
Leq(a, b) == a.cls # "nan" /\ b.cls # "nan" /\ ~Less(b, a)

\* d.get('_percent_str', '0.0%')
PercentStr(entry) == IF entry.t = "missing" THEN "0.0%" ELSE entry.v

\* progress_hook(d) for d['status'] == 'downloading' with the '_percent_str'
\* entry `entry`: the message it schedules.  None has no replace(): the
\* except clause of line 38 reports the AttributeError with progress 0.
hook_downloading(entry) ==
    IF entry.t = "none" THEN Progress(0, "hook_error")
    ELSE Message("progress", percent(PercentStr(entry)), "downloading")

\* The messages of every entry of the model, computed once.
HookMessages == { <<entry, hook_downloading(entry)>> : entry \in PercentEntries }
HookMessage(entry) == (CHOOSE r \in HookMessages : r[1] = entry)[2]

\* asyncio.run_coroutine_threadsafe(ws.send_json(m), loop) by the hook of h.
\* The coroutine of a MockWebSocket does nothing when the loop runs it: the
\* model leaves it out of the queue.
Scheduled(h, m) ==
    IF h \in Conns
    THEN Append(loopq, [ws |-> h, msg |-> m, n |-> emitted[h] + 1])
    ELSE loopq

(***************************************************************************)
(* download_audio, for either endpoint.                                    *)
(***************************************************************************)
\* str(e) of the exception that ydl.extract_info raises; the except clause of
\* line 138 reports it in the status of a progress message.
ExtractorError == "error"

\* line 68: the first message of download_audio
DlStart(h, ok) ==
    /\ UNCHANGED << shutdown, call, artifact >>
    /\ pc[h] = "dl_start"
    /\ Ready(h)
    /\ called' = called \cup {h}
    /\ Send(h, Progress(5, "info"), "info", ok, active_connections)
    /\ UNCHANGED << req, downloads, loopq, files, task_id, title, mp3_path, thumb_path, chunks, finished,
                    resp >>

\* line 72 raises: the except clause of line 138 reports and returns None, None
ExtractInfoFails(h, ok) ==
    /\ UNCHANGED << shutdown, call, artifact >>
    /\ pc[h] = "info"
    /\ Ready(h)
    /\ Send(h, Progress(0, ExtractorError), "ret_fail", ok, active_connections)
    /\ UNCHANGED << req, downloads, loopq, files, task_id, title, mp3_path, thumb_path, chunks, finished,
                    resp, called >>

\* safe_filename, lines 45-47: re.sub(r'[<>:"/\\|?*]', '_', filename)
UnsafeChars == { "<", ">", ":", "\"", "/", "\\", "|", "?", "*" }

RECURSIVE safe_filename(_)
safe_filename(filename) ==
    IF Len(filename) = 0 THEN ""
    ELSE (IF CharAt(filename, 1) \in UnsafeChars THEN "_" ELSE CharAt(filename, 1))
             \o safe_filename(SubSeq(filename, 2, Len(filename)))

\* line 73: safe_filename(info.get('title', 'audio'))
TitleOf(info) == safe_filename(IF info.has THEN info.v ELSE "audio")

\* The last position of the character c in s, 0: none
LastOf(c, s) ==
    IF \E k \in 1..Len(s) : CharAt(s, k) = c
    THEN CHOOSE k \in 1..Len(s) :
             /\ CharAt(s, k) = c
             /\ \A j \in (k + 1)..Len(s) : CharAt(s, j) # c
    ELSE 0

\* os.path.splitext(p)[0]: p without its extension, which starts at the last
\* dot of the last component of p when a character other than a dot stands
\* before that dot in the component.
splitext_root(p) ==
    LET sep == LastOf("/", p)
        dot == LastOf(".", p)
    IN  IF dot > sep /\ \E k \in (sep + 1)..(dot - 1) : CharAt(p, k) # "."
        THEN SubSeq(p, 1, dot - 1)
        ELSE p

\* The extension of the file that the extractor downloads before the
\* conversion to mp3.
MediaExt == "webm"

\* ydl.prepare_filename(info), line 81, as a name in the download folder.
\* prepare_filename is the extractor's: it fills the template of line 51,
\* '%(title)s.%(ext)s', with the title of info as it is, and with NA for a
\* title that info does not have.
prepare_filename(info) ==
    (IF info.has THEN info.v ELSE "NA") \o "." \o MediaExt

\* lines 81-82: the name of the mp3 file in the download folder
Mp3PathOf(info) == splitext_root(prepare_filename(info)) \o ".mp3"

\* line 119: the name of the thumbnail file in the download folder
ThumbPathOf(t, ext) == t \o "_thumbnail" \o ext

\* lines 72-75: the metadata arrive, the title is announced
ExtractInfo(h, info, ok) ==
    /\ UNCHANGED << shutdown, call, artifact >>
    /\ pc[h] = "info"
    /\ Ready(h)
    /\ title' = [title EXCEPT ![h] = TitleOf(info)]
    /\ Send(h, Progress(10, "begin"), "download", ok, active_connections)
    /\ UNCHANGED << req, downloads, loopq, files,
                    task_id, mp3_path, thumb_path, chunks, finished, resp,
                    called >>

\* line 78, ydl.extract_info(url, download=True), is a blocking call on the
\* loop's thread.  It calls progress_hook with 'downloading' events ...
HookDownloading(h, entry) ==
    /\ UNCHANGED << shutdown, call, artifact >>
    /\ pc[h] = "download"
    /\ Ready(h)
    /\ ~finished[h]
    /\ chunks[h] < MaxChunks
    /\ running' = h
    /\ chunks' = [chunks EXCEPT ![h] = @ + 1]
    /\ loopq' = Scheduled(h, HookMessage(entry))
    /\ emitted' = Emitted(h)
    /\ UNCHANGED << pc, req, downloads, active_connections, wire, conn,
                    files, task_id, title, mp3_path, thumb_path,
                    finished, resp, called >>

\* ... and then once with 'finished', before the conversion to mp3.
HookFinished(h) ==
    /\ UNCHANGED << shutdown, call, artifact >>
    /\ pc[h] = "download"
    /\ Ready(h)
    /\ ~finished[h]
    /\ running' = h
    /\ finished' = [finished EXCEPT ![h] = TRUE]
    /\ loopq' = Scheduled(h, Progress(95, "converting"))
    /\ emitted' = Emitted(h)
    /\ UNCHANGED << pc, req, downloads, active_connections, wire, conn,
                    files, task_id, title, mp3_path, thumb_path,
                    chunks, resp, called >>

\* line 78 raises, at any point of the extraction
ExtractFails(h, ok) ==
    /\ UNCHANGED << shutdown, call, artifact >>
    /\ pc[h] = "download"
    /\ Ready(h)
    /\ chunks' = [chunks EXCEPT ![h] = 0]
    /\ finished' = [finished EXCEPT ![h] = FALSE]
    /\ Send(h, Progress(0, ExtractorError), "ret_fail", ok, active_connections)
    /\ UNCHANGED << req, downloads, loopq, files, task_id, title, mp3_path, thumb_path, resp, called >>

\* file_size_mb > max_filesize_mb, guarded by `if max_filesize_mb:`
OverLimit(bytes, maxsize) == maxsize # 0 /\ bytes > maxsize * BytesPerMB

\* lines 78-100: the extraction returns with its own info, having written
\* `size` bytes to the mp3 file that info names (0: it wrote no file); the
\* file is looked up, its size checked, and the thumbnail stage announced.
ExtractDone(h, info, size, ok) ==
    /\ UNCHANGED << shutdown, call >>
    /\ pc[h] = "download"
    /\ Ready(h)
    /\ finished[h]
    /\ LET name == Mp3PathOf(info)
           written == IF size > 0 THEN Written(files, name, size) ELSE files
       IN  /\ artifact' = [artifact EXCEPT ![h] = [name |-> name, bytes |-> size]]
           /\ IF name \notin DOMAIN written
              THEN /\ files' = written
                   /\ Send(h, Progress(0, "no_file"), "ret_fail", ok,
                           active_connections)
                   /\ UNCHANGED mp3_path
              ELSE IF OverLimit(written[name], MaxSize(h))
              THEN /\ files' = Removed(written, name)
                   /\ Send(h, Progress(0, "over_limit"), "ret_fail", ok,
                           active_connections)
                   /\ UNCHANGED mp3_path
              ELSE /\ files' = written
                   /\ mp3_path' = [mp3_path EXCEPT ![h] = name]
                   /\ Send(h, Progress(90, "thumb_fetch"), "thumb", ok,
                           active_connections)
    /\ chunks' = [chunks EXCEPT ![h] = 0]
    /\ finished' = [finished EXCEPT ![h] = FALSE]
    /\ UNCHANGED << req, downloads, loopq, task_id,
                    title, thumb_path, resp, called >>

\* lines 103-133: the thumbnail.  With a thumbnail list whose last entry has
\* no url nothing is sent, and line 135 follows without an await in between.
\* open(thumb_path, 'wb') makes the file, or empties the one that is there;
\* when the transfer raises after that, the file stays as far as it was
\* written and thumb_path becomes None.
Thumbnail(h, outcome, ok) ==
    /\ UNCHANGED << shutdown, call, artifact >>
    /\ pc[h] = "thumb"
    /\ Ready(h)
    /\ outcome \in ThumbOutcomes
    /\ LET path == ThumbPathOf(title[h], outcome.ext)
       IN  /\ files' = IF outcome.kind \in {"saved", "partial"}
                       THEN Written(files, path, outcome.bytes)
                       ELSE files
           /\ thumb_path' = [thumb_path EXCEPT ![h] =
                                 IF outcome.kind = "saved" /\ ok THEN path ELSE ""]
    /\ CASE outcome.kind = "no_thumbnails" ->
                Send(h, Progress(95, "thumb_unavailable"), "send100", ok, active_connections)
         [] outcome.kind = "no_url" ->
                Send(h, Progress(100, "ready"), "ret_ok", ok, active_connections)
         [] outcome.kind = "saved" ->
                Send(h, Progress(95, "thumb_saved"), "send100", ok, active_connections)
         [] outcome.kind \in {"failed", "partial"} ->
                Send(h, Progress(95, "thumb_failed"), "send100", ok, active_connections)
    /\ UNCHANGED << req, downloads, loopq,
                    task_id, title, mp3_path, chunks, finished, resp,
                    called >>

\* line 135
Ready100(h, ok) ==
    /\ UNCHANGED << shutdown, call, artifact >>
    /\ pc[h] = "send100"
    /\ Ready(h)
    /\ Send(h, Progress(100, "ready"), "ret_ok", ok, active_connections)
    /\ UNCHANGED << req, downloads, loopq, files, task_id, title, mp3_path, thumb_path, chunks, finished,
                    resp, called >>

(***************************************************************************)
(* The end of the handlers.                                                *)
(***************************************************************************)
\* os.path.exists(mp3_path), os.path.exists(thumb_path)
Mp3Exists(h) == mp3_path[h] # "" /\ mp3_path[h] \in DOMAIN files
ThumbExists(h) == thumb_path[h] # "" /\ thumb_path[h] \in DOMAIN files

\* websocket_download, lines 144-176: download_audio has returned
WsFinish(h, ok) ==
    /\ UNCHANGED << shutdown, call, artifact >>
    /\ h \in Conns
    /\ pc[h] \in {"ret_ok", "ret_fail"}
    /\ Ready(h)
    /\ IF pc[h] = "ret_ok" /\ Mp3Exists(h)
       THEN /\ downloads' = update_completed(task_id[h], mp3_path[h], thumb_path[h])
            /\ Send(h, [Message("success", NoProgress, "done")
                           EXCEPT !.task_id = task_id[h],
                                  !.thumbnail = ThumbExists(h)],
                    "finally", ok, active_connections)
       ELSE /\ downloads' = update_failed(task_id[h])
            /\ Send(h, [Message("failure", NoProgress, "download_failed")
                           EXCEPT !.task_id = task_id[h]],
                    "finally", ok, active_connections)
    /\ UNCHANGED << req, loopq, files, task_id,
                    title, mp3_path, thumb_path, chunks, finished, resp,
                    called >>

\* WsFinally without the `del active_connections[connection_id]`
WsFinally_keeps_registered(h) ==
    /\ h \in Conns
    /\ pc[h] = "finally"
    /\ Ready(h)
    /\ conn' = [conn EXCEPT ![h] = IF @ = "gone" THEN "gone" ELSE "closed"]
    /\ pc' = [pc EXCEPT ![h] = "closing"]
    /\ UNCHANGED << req, downloads, active_connections, wire, loopq, running,
                    files, task_id, title, mp3_path, thumb_path,
                    chunks, finished, emitted, resp, called, artifact,
                    shutdown, call >>

\* websocket_download, lines 186-191: the finally block unregisters the
\* connection and closes it; the coroutine is suspended in `await ws.close()`.
WsFinally(h) ==
    /\ UNCHANGED << shutdown, call, artifact >>
    /\ h \in Conns
    /\ pc[h] = "finally"
    /\ Ready(h)
    /\ active_connections' = active_connections \ {h}
    /\ conn' = [conn EXCEPT ![h] = IF @ = "gone" THEN "gone" ELSE "closed"]
    /\ pc' = [pc EXCEPT ![h] = "closing"]
    /\ UNCHANGED << req, downloads, wire, loopq, running, files,
                    task_id, title, mp3_path, thumb_path, chunks, finished,
                    emitted, resp, called >>

\* lines 191-193: ws.close() has returned or raised, and the handler returns.
WsClosed(h) ==
    /\ UNCHANGED << shutdown, call, artifact >>
    /\ h \in Conns
    /\ pc[h] = "closing"
    /\ Ready(h)
    /\ pc' = [pc EXCEPT ![h] = "done"]
    /\ UNCHANGED << req, downloads, active_connections, wire, loopq, running,
                    conn, files, task_id, title, mp3_path, thumb_path, chunks,
                    finished, emitted, resp, called >>

\* api_download_url, lines 276-292: download_audio has returned.  The
\* HTTPException of line 288 is raised inside the try block and leaves as the
\* status 500 of line 292.
ApiFinish(h) ==
    /\ UNCHANGED << shutdown, call, artifact >>
    /\ h \in Reqs
    /\ pc[h] \in {"ret_ok", "ret_fail"}
    /\ Ready(h)
    /\ resp' = [resp EXCEPT ![h] =
                   IF pc[h] = "ret_ok" /\ Mp3Exists(h)
                   THEN Response("success", "done", "", 200)
                   ELSE Response("error", "download_failed", "", 500)]
    /\ pc' = [pc EXCEPT ![h] = "done"]
    /\ running' = NoOne
    /\ UNCHANGED << req, downloads, active_connections, wire, loopq, conn,
                    files, task_id, title, mp3_path, thumb_path,
                    chunks, finished, emitted, called >>

(***************************************************************************)
(* The event loop runs the oldest coroutine that progress_hook scheduled:  *)
(* ws.send_json(m), whose exception nobody retrieves.                      *)
(***************************************************************************)
RunHookTask(ok) ==
    /\ UNCHANGED << shutdown, call, artifact >>
    /\ running = NoOne
    /\ loopq # << >>
    /\ LET t == Head(loopq)
       IN  /\ ok \in SendOutcomes(t.ws)
           /\ wire' = Delivered(t.ws, t.msg, t.n, "hook", ok)
           /\ conn' = Lost(t.ws, ok)
    /\ loopq' = Tail(loopq)
    /\ UNCHANGED << pc, req, downloads, active_connections, running, files,
                    task_id, title, mp3_path, thumb_path, chunks,
                    finished, emitted, resp, called >>

(***************************************************************************)
(* serve_file, lines 294-324: GET /api/file/{file_name}.                   *)
(***************************************************************************)
\* The names a client asks for.
FileNames ==
    { "song.mp3", "song_thumbnail.jpg", "song_thumbnail.webp", "a:b.mp3",
      "a_b_thumbnail.png", "missing.mp3", "../../etc/passwd", "..", "a/b.mp3",
      "a\\b.mp3", "song..mp3", "", "." }

\* is_unsafe_name without the test for a backslash
is_unsafe_name_two_tests(file_name) ==
    Contains("..", file_name) \/ Contains("/", file_name)

\* line 298: ".." in file_name or "/" in file_name or "\\" in file_name
is_unsafe_name(file_name) ==
    \/ Contains("..", file_name)
    \/ Contains("/", file_name)
    \/ Contains("\\", file_name)

\* The names under which the download folder holds a file.
StoredNames == DOMAIN files

\* os.path.exists(os.path.join(DOWNLOAD_FOLDER, file_name)), lines 301-303:
\* the empty name and "." are the download folder itself, which the program
\* made when it started.
PathExists(file_name) == file_name \in StoredNames \/ file_name \in { "", "." }

\* serve_file(file_name): 400 for an unsafe name, before anything else; then
\* one os.path.exists decides between 404 and the FileResponse that the
\* handler returns (code 200).
ServeFile(file_name) ==
    /\ running = NoOne
    /\ call' = IF is_unsafe_name(file_name)
               THEN [fn |-> "serve_file", arg |-> file_name, code |-> 400,
                     lookups |-> 0, before |-> << >>]
               ELSE IF ~PathExists(file_name)
               THEN [fn |-> "serve_file", arg |-> file_name, code |-> 404,
                     lookups |-> 1, before |-> << >>]
               ELSE [fn |-> "serve_file", arg |-> file_name, code |-> 200,
                     lookups |-> 1, before |-> << >>]
    /\ UNCHANGED << pc, req, downloads, active_connections, wire, loopq,
                    running, conn, files, task_id, title, mp3_path,
                    thumb_path, chunks, finished, emitted, resp, called,
                    artifact, shutdown >>

\* cleanup_old_files, lines 343-356: every file of the download folder is
\* removed and counted; the handler has no await.
cleanup_old_files ==
    /\ running = NoOne
    /\ files' = EmptyFolder
    /\ call' = [fn |-> "cleanup_old_files", arg |-> Cardinality(DOMAIN files),
                code |-> 0, lookups |-> 0, before |-> << >>]
    /\ UNCHANGED << pc, req, downloads, active_connections, wire, loopq,
                    running, conn, task_id, title, mp3_path, thumb_path,
                    chunks, finished, emitted, resp, called, artifact,
                    shutdown >>

(***************************************************************************)
(* The DownloadManager called directly, with known and unknown task ids.   *)
(***************************************************************************)
\* The keyword arguments of the calls of update_download.
UpdateKwargs ==
    { [status |-> "completed", progress |-> 100,
       mp3_path |-> "song.mp3", thumb_path |-> ""],
      [status |-> "failed", error |-> "download_failed"],
      [progress |-> 40] }

StoreCreate(i) ==
    /\ Len(downloads) < MaxJobs
    /\ downloads' = create_download_task(i[1], i[2])
    /\ call' = [NoCall EXCEPT !.fn = "create_download_task",
                              !.before = downloads]
    /\ UNCHANGED << pc, req, active_connections, wire, loopq, running, conn,
                    files, task_id, title, mp3_path, thumb_path,
                    chunks, finished, emitted, resp, called, artifact,
                    shutdown >>

StoreUpdate(id, kwargs) ==
    /\ downloads' = update_download(downloads, id, kwargs)
    /\ call' = [fn |-> "update_download", arg |-> id, code |-> 0,
                lookups |-> 0, before |-> downloads]
    /\ UNCHANGED << pc, req, active_connections, wire, loopq, running, conn,
                    files, task_id, title, mp3_path, thumb_path,
                    chunks, finished, emitted, resp, called, artifact,
                    shutdown >>

(***************************************************************************)
(* shutdown_event, lines 400-411.  It iterates over active_connections     *)
(* and suspends in `await ws.close()` inside the loop; handlers run         *)
(* meanwhile.  The iterator of a dict raises RuntimeError at its next step *)
(* when the size of the dict differs from the size it was made with.  With *)
(* the same size and other keys (one id deleted, one inserted) the         *)
(* iterator goes on over the entries of the dict: it yields an id it has   *)
(* not yielded, or ends early, or raises RuntimeError ("dictionary keys    *)
(* changed during iteration"), as the layout of the entries decides.       *)
(***************************************************************************)
\* ws.close() by shutdown_event on connection c: the connection is closed by
\* the application, every later call of the handler on it raises.  A close
\* that raises is swallowed by the bare except of line 407.
ClosedByShutdown(c) ==
    [conn EXCEPT ![c] = IF @ = "open" THEN "gone" ELSE @]

\* active_connections.clear(), line 411
ShutdownClear(reg) == {}

\* lines 401-406: the for loop starts; with an empty registry it ends at once
\* and the registry is cleared, otherwise the first id is taken and closed.
ShutdownStart ==
    /\ shutdown.pc = "idle"
    /\ running = NoOne
    /\ IF active_connections = {}
       THEN /\ shutdown' = [shutdown EXCEPT !.pc = "done",
                                           !.left = ShutdownClear(active_connections)]
            /\ active_connections' = ShutdownClear(active_connections)
            /\ UNCHANGED conn
       ELSE \E c \in active_connections :
               /\ shutdown' = [shutdown EXCEPT !.pc = "closing",
                                              !.keys = active_connections,
                                              !.seen = {c}]
               /\ conn' = ClosedByShutdown(c)
               /\ UNCHANGED active_connections
    /\ UNCHANGED << pc, req, downloads, wire, loopq, running, files, task_id, title, mp3_path, thumb_path, chunks, finished,
                    emitted, resp, called, artifact, call >>

\* lines 404-411: `await ws.close()` has returned and the loop takes its next
\* step; when the loop ends the registry is cleared.
ShutdownNext ==
    /\ shutdown.pc = "closing"
    /\ running = NoOne
    /\ LET unseen == active_connections \ shutdown.seen
           finish == /\ shutdown' = [shutdown EXCEPT !.pc = "done",
                                        !.left = ShutdownClear(active_connections)]
                     /\ active_connections' = ShutdownClear(active_connections)
                     /\ UNCHANGED conn
           close == \E c \in unseen :
                        /\ shutdown' = [shutdown EXCEPT !.seen = @ \cup {c}]
                        /\ conn' = ClosedByShutdown(c)
                        /\ UNCHANGED active_connections
           raise == /\ shutdown' = [shutdown EXCEPT !.pc = "raised",
                                                   !.left = active_connections]
                    /\ UNCHANGED << active_connections, conn >>
       IN  IF Cardinality(active_connections) # Cardinality(shutdown.keys)
           THEN raise
           ELSE IF active_connections = shutdown.keys
           THEN IF unseen = {} THEN finish ELSE close
           ELSE finish \/ close \/ raise
    /\ UNCHANGED << pc, req, downloads, wire, loopq, running, files, task_id, title, mp3_path, thumb_path, chunks, finished,
                    emitted, resp, called, artifact, call >>

(***************************************************************************)
(* Specifications.                                                         *)
(***************************************************************************)
\* The steps of a handler; titles: the titles the extractor reports,
\* entries: the '_percent_str' entries of its events, outcomes: the thumbnail
\* outcomes that its metadata and the thumbnail host can produce.
Step(h, ok, titles, entries, outcomes) ==
    \/ WsAcceptFails(h)
    \/ WsReject(h, ok)
    \/ WsSubmit(h, ok)
    \/ DlStart(h, ok)
    \/ ExtractInfoFails(h, ok)
    \/ \E info \in titles : ExtractInfo(h, info, ok)
    \/ \E entry \in entries : HookDownloading(h, entry)
    \/ HookFinished(h)
    \/ ExtractFails(h, ok)
    \/ \E info \in titles, size \in FileSizes \cup {0} :
           ExtractDone(h, info, size, ok)
    \/ \E outcome \in outcomes : Thumbnail(h, outcome, ok)
    \/ Ready100(h, ok)
    \/ WsFinish(h, ok)
    \/ WsFinally(h)
    \/ WsClosed(h)

\* The usual event: a numeral with a zero fraction.
UsualEntries == { PercentEntry("str", " 40.0%") }

\* Concurrent connections, with few inputs.
Next ==
    \/ \E h \in Conns, i \in LifecycleInputs : WsOpen(h, i)
    \/ \E h \in Conns, ok \in BOOLEAN :
           Step(h, ok, Titles, UsualEntries, SavedJpg)
    \/ \E ok \in BOOLEAN : RunHookTask(ok)

Spec == Init /\ [][Next]_vars

\* One connection and one plain request, with every input.
InputHandlers == { 1, MaxConns + 1 }

NextInputs ==
    \/ \E h \in InputHandlers, i \in AllInputs :
           WsOpen(h, i) \/ ApiReject(h, i) \/ ApiSubmit(h, i)
    \/ \E h \in InputHandlers, ok \in BOOLEAN :
           \/ Step(h, ok, Titles, UsualEntries, SavedJpg)
           \/ ApiFinish(h)
    \/ \E ok \in BOOLEAN : RunHookTask(ok)

SpecInputs == Init /\ [][NextInputs]_vars

\* One connection, with everything the extractor and the thumbnail host can
\* do.
NextOne ==
    \/ \E i \in LifecycleInputs : WsOpen(1, i)
    \/ \E ok \in BOOLEAN : Step(1, ok, AllTitles, PercentEntries, ThumbOutcomes)
    \/ \E ok \in BOOLEAN : RunHookTask(ok)

SpecOne == Init /\ [][NextOne]_vars

\* One connection, the retrieval of files and the cleanup of the folder.
FolderTitles == { TitleInfo(TRUE, "song"), TitleInfo(TRUE, "a:b") }
FolderOutcomes ==
    { ThumbOutcome("saved", ".jpg", ThumbBytes),
      ThumbOutcome("saved", ".webp", ThumbBytes),
      ThumbOutcome("partial", ".png", 1),
      ThumbOutcome("failed", ".jpg", 0) }

NextFolder ==
    \/ \E i \in LifecycleInputs : WsOpen(1, i)
    \/ \E ok \in BOOLEAN :
           Step(1, ok, FolderTitles, UsualEntries, FolderOutcomes)
    \/ \E ok \in BOOLEAN : RunHookTask(ok)
    \/ \E file_name \in FileNames : ServeFile(file_name)
    \/ cleanup_old_files

SpecFolder == Init /\ [][NextFolder]_vars

\* Concurrent connections with valid requests whose extractor does not
\* raise, and the cleanup of the folder.
NextStorage ==
    \/ \E h \in Conns : WsOpen(h, <<"https://youtu.be/abc123", MAX_FILE_SIZE_MB>>)
    \/ \E h \in Conns, ok \in BOOLEAN :
           \/ WsAcceptFails(h)
           \/ WsSubmit(h, ok)
           \/ DlStart(h, ok)
           \/ \E info \in Titles : ExtractInfo(h, info, ok)
           \/ HookFinished(h)
           \/ \E info \in Titles, size \in FileSizes \cup {0} :
                  ExtractDone(h, info, size, ok)
           \/ \E outcome \in SavedJpg : Thumbnail(h, outcome, ok)
           \/ Ready100(h, ok)
           \/ WsFinish(h, ok)
           \/ WsFinally(h)
           \/ WsClosed(h)
    \/ \E ok \in BOOLEAN : RunHookTask(ok)
    \/ cleanup_old_files

SpecStorage == Init /\ [][NextStorage]_vars

\* Concurrent connections whose extractor fails at once, and the shutdown of
\* the application.
NextShutdown ==
    \/ \E h \in Conns, i \in LifecycleInputs : WsOpen(h, i)
    \/ \E h \in Conns, ok \in BOOLEAN :
           \/ WsAcceptFails(h)
           \/ WsReject(h, ok)
           \/ WsSubmit(h, ok)
           \/ DlStart(h, ok)
           \/ ExtractInfoFails(h, ok)
           \/ WsFinish(h, ok)
           \/ WsFinally(h)
           \/ WsClosed(h)
    \/ ShutdownStart
    \/ ShutdownNext

SpecShutdown == Init /\ [][NextShutdown]_vars

\* The Job Store alone: ids up to MaxJobs exist at most, MaxJobs + 1 never.
NextStore ==
    \/ \E i \in LifecycleInputs : StoreCreate(i)
    \/ \E id \in 1..(MaxJobs + 1), kwargs \in UpdateKwargs :
           StoreUpdate(id, kwargs)

SpecStore == Init /\ [][NextStore]_vars

(***************************************************************************)
(* The claims.                                                             *)
(***************************************************************************)
Terminal == { "completed", "failed" }
Job(h) == downloads[task_id[h]]
HasJob(h) == task_id[h] # 0
Returned(h) == pc[h] = "done"
IsTerminalMessage(e) == e.msg.kind \in { "success", "failure" }
IsProgressMessage(e) == e.msg.kind = "progress"

\* C1: once websocket_download has returned, the Job it created is completed
\* or failed, whatever happened to the connection.
C1_TerminalAfterReturn ==
    \A h \in Conns :
        Returned(h) /\ HasJob(h) => Job(h).status \in Terminal

\* C2: when download_audio found the artifact and found it within the limit,
\* and the artifact is still in storage, the Job of a returned handler is
\* completed with that audio_path, also when a send raised.
C2_DeliveryFailureSwallowed ==
    \A h \in Conns :
        Returned(h) /\ HasJob(h) /\ Mp3Exists(h) =>
            /\ Job(h).status = "completed"
            /\ Job(h).mp3_path = mp3_path[h]

\* C3: the messages of a job reach its connection in the order of their
\* emission.
C3_FifoDelivery ==
    \A c \in Conns :
        \A i, j \in 1..Len(wire[c]) :
            i < j => wire[c][i].n < wire[c][j].n

\* C4: on the connection of a job there is at most one terminal message and no
\* progress message after it, and a handler that returned with the client
\* still there has sent one.
C4_OneTerminalMessageLast ==
    \A c \in Conns :
        HasJob(c) =>
            /\ \A i, j \in 1..Len(wire[c]) :
                   i < j /\ IsTerminalMessage(wire[c][i]) =>
                       ~IsProgressMessage(wire[c][j]) /\ ~IsTerminalMessage(wire[c][j])
            /\ Returned(c) /\ conn[c] = "closed" =>
                   \E i \in 1..Len(wire[c]) : IsTerminalMessage(wire[c][i])

\* C5: in a run that does not fail (the connection got the success message),
\* no progress value is lower than one sent before it.
C5_ProgressNonDecreasing ==
    \A c \in Conns :
        (\E k \in 1..Len(wire[c]) : wire[c][k].msg.kind = "success") =>
            \A i, j \in 1..Len(wire[c]) :
                i < j /\ IsProgressMessage(wire[c][i]) /\ IsProgressMessage(wire[c][j])
                    => Leq(wire[c][i].msg.progress, wire[c][j].msg.progress)

\* C6: while the extraction of one job is in progress, the loop can deliver
\* the progress messages queued for it and can serve another connection that
\* waits for its handshake.
Extracting(h) == pc[h] = "download" /\ running = h

C6_LoopFreeDuringExtraction ==
    \A h \in Conns :
        Extracting(h) =>
            /\ loopq # << >> => ENABLED (\E ok \in BOOLEAN : RunHookTask(ok))
            /\ \A g \in Conns :
                   pc[g] = "accepting" =>
                       ENABLED (\E ok \in BOOLEAN : WsReject(g, ok) \/ WsSubmit(g, ok))

(***************************************************************************)
(* Claims about the validation of requests, under SpecInputs.              *)
(***************************************************************************)
\* What a url contains, by the case-insensitive test of the code.
MatchedLabels(url) ==
    { Upper(COMING_SOON_PLATFORMS[k]) :
          k \in { j \in 1..Len(COMING_SOON_PLATFORMS) :
                      Contains(COMING_SOON_PLATFORMS[j], Lower(url)) } }

UrlFacts ==
    { [url |-> u,
       blank |-> IsBlank(u),
       supported |-> \E k \in 1..Len(SUPPORTED_PLATFORMS) :
                         Contains(SUPPORTED_PLATFORMS[k], Lower(u)),
       labels |-> MatchedLabels(u)] : u \in Urls }

Facts(u) == CHOOSE f \in UrlFacts : f.url = u

ValidSize(m) == m \in 1..MAX_FILE_SIZE_MB

\* The handler has answered the request or admitted it.
Validated(h) == resp[h] # NoResp

\* The request of h left the Job Store as it was.
NoJobFor(h) ==
    /\ task_id[h] = 0
    /\ \A k \in DOMAIN downloads : \E g \in Handlers \ {h} : task_id[g] = k

\* The plain endpoint called download_audio for the request.
Admitted(p) == p \in called \/ pc[p] = "dl_start"

\* C7: a submission on the streaming endpoint with a size outside [1, 50] is
\* answered with an error message; no Job is created for it, the Job Store
\* stays as it was and download_audio, hence the extractor, is never called.
C7_SizeRejected ==
    \A c \in Conns :
        pc[c] # "idle" /\ ~ValidSize(MaxSize(c)) =>
            /\ pc[c] \in { "accepting", "finally", "closing", "done" }
            /\ NoJobFor(c)
            /\ c \notin called
            /\ pc[c] # "accepting" => Validated(c) \/ conn[c] = "gone"
            /\ Validated(c) =>
                   /\ resp[c].kind = "error"
                   /\ resp[c].detail \in { "empty_url", "bad_size" }
                   /\ conn[c] # "gone" =>
                          /\ Len(wire[c]) = 1
                          /\ wire[c][1].msg.kind = "error"
                          /\ wire[c][1].msg.status = resp[c].detail

C7_Witness ==
    \E c \in Conns :
        /\ Returned(c)
        /\ MaxSize(c) \in { 0, MAX_FILE_SIZE_MB + 1 }
        /\ Facts(Url(c)).supported
        /\ resp[c].detail = "bad_size"
        /\ Len(wire[c]) = 1
        /\ downloads = << >>

\* C8: the plain endpoint admits a request exactly when the streaming
\* endpoint does; it rejects blank urls and every maxsize outside (0, 50].
C8_SameValidation ==
    /\ \A c \in Conns, p \in Reqs :
           Validated(c) /\ Validated(p) /\ req[c] = req[p] =>
               (HasJob(c) <=> Admitted(p))
    /\ \A p \in Reqs :
           Validated(p) /\ (Facts(Url(p)).blank \/ ~ValidSize(MaxSize(p))) =>
               ~Admitted(p)

\* The answer that names a coming-soon platform, without a Job.
ComingSoonAnswer(h) ==
    /\ resp[h].kind = "coming_soon"
    /\ resp[h].platform \in Facts(Url(h)).labels
    /\ NoJobFor(h)
    /\ h \notin called
    /\ h \in Conns /\ conn[h] # "gone" =>
           /\ Len(wire[h]) = 1
           /\ wire[h][1].msg.kind = "coming_soon"
           /\ wire[h][1].msg.platform = resp[h].platform

\* C9 as stated: every url that contains a coming-soon marker is answered
\* with coming_soon and the label of a matched platform, without a Job.
C9_EveryComingSoonUrl ==
    \A h \in Handlers :
        Validated(h) /\ Facts(Url(h)).labels # {} => ComingSoonAnswer(h)

\* C9, amended: every url that contains a coming-soon marker and no
\* supported-platform marker, sent with a maxsize in [1, 50] when it is sent
\* on the streaming endpoint, is answered with coming_soon and the label of a
\* matched platform; no Job is created and download_audio is not called.
C9_ComingSoon ==
    \A h \in Handlers :
        /\ Validated(h)
        /\ Facts(Url(h)).labels # {}
        /\ ~Facts(Url(h)).supported
        /\ h \in Conns => ValidSize(MaxSize(h))
        => ComingSoonAnswer(h)

C9_Witness ==
    \E c \in Conns, p \in Reqs :
        /\ Returned(c)
        /\ resp[c].platform = "VK.COM"
        /\ Len(wire[c]) = 1
        /\ Returned(p)
        /\ resp[p].kind = "coming_soon"
        /\ resp[p].platform = "SOUNDCLOUD.COM"

\* The generic answer to an unsupported platform, without a Job.
UnsupportedAnswer(h) ==
    /\ resp[h].kind = "error"
    /\ resp[h].detail = "unsupported"
    /\ NoJobFor(h)
    /\ h \notin called
    /\ h \in Conns /\ conn[h] # "gone" =>
           /\ Len(wire[h]) = 1
           /\ wire[h][1].msg.kind = "error"
           /\ wire[h][1].msg.status = "unsupported"

\* C10 as stated: every url without a supported-platform marker and without
\* a coming-soon marker is answered with the generic unsupported-platform
\* error, without a Job.
C10_EveryUnknownUrl ==
    \A h \in Handlers :
        /\ Validated(h)
        /\ Facts(Url(h)).labels = {}
        /\ ~Facts(Url(h)).supported
        => UnsupportedAnswer(h)

\* C10, amended: every such url that is not blank and comes with a maxsize in
\* [1, 50] on the streaming endpoint, or is not empty on the plain endpoint,
\* is answered with the generic unsupported-platform error, without a Job.
C10_Unsupported ==
    \A h \in Handlers :
        /\ Validated(h)
        /\ Facts(Url(h)).labels = {}
        /\ ~Facts(Url(h)).supported
        /\ h \in Conns => ~Facts(Url(h)).blank /\ ValidSize(MaxSize(h))
        /\ h \in Reqs => Len(Url(h)) > 0
        => UnsupportedAnswer(h)

C10_Witness ==
    \E c \in Conns, p \in Reqs :
        /\ Returned(c)
        /\ Url(c) = "https://example.com/a"
        /\ resp[c].detail = "unsupported"
        /\ Len(wire[c]) = 1
        /\ Returned(p)
        /\ Url(p) = " \f"
        /\ resp[p].detail = "unsupported"

(***************************************************************************)
(* Claims about the Job Store and the outcome of a job.                    *)
(***************************************************************************)
\* The request of h passed validation and platform classification.
PassedValidation(h) ==
    IF h \in Conns THEN resp[h].kind = "accepted"
    ELSE Validated(h) /\ Admitted(h)

\* C11: the Job Store holds exactly one Job for each request that passed
\* validation and platform classification, on either endpoint.
C11_OneJobPerRequest ==
    Len(downloads) = Cardinality({ h \in Handlers : PassedValidation(h) })

\* C12: when the extraction of a job produced an mp3 larger than the size
\* limit of the request, the Job of the returned handler is failed, has no
\* audio path, and the file is not in storage.
C12_OverLimitFails ==
    \A c \in Conns :
        Returned(c) /\ HasJob(c) /\ OverLimit(artifact[c].bytes, MaxSize(c)) =>
            /\ Job(c).status = "failed"
            /\ Job(c).mp3_path = ""
            /\ artifact[c].name \notin DOMAIN files

\* C13: when the extractor raised (download_audio reported the exception to
\* the connection), the Job of the returned handler is failed and its error
\* field holds the message of the exception.
C13_ExtractorErrorRecorded ==
    \A c \in Conns :
        /\ Returned(c)
        /\ HasJob(c)
        /\ \E i \in 1..Len(wire[c]) : wire[c][i].msg = Progress(0, ExtractorError)
        => /\ Job(c).status = "failed"
           /\ Job(c).error = ExtractorError

\* The thumbnail fetch of the job failed, and the connection was told so.
ThumbnailFailed(c) ==
    \E i \in 1..Len(wire[c]) :
        wire[c][i].msg.status \in { "thumb_unavailable", "thumb_failed" }

\* C14: when the thumbnail fetch failed and the audio file is there, within
\* the limit, the Job of the returned handler is completed without a
\* thumbnail path, and the connection got a success message without a
\* thumbnail_url.
C14_ThumbnailFailureNotFatal ==
    \A c \in Conns :
        Returned(c) /\ HasJob(c) /\ Mp3Exists(c) /\ ThumbnailFailed(c) =>
            /\ Job(c).status = "completed"
            /\ Job(c).thumb_path = ""
            /\ \E i \in 1..Len(wire[c]) :
                   /\ wire[c][i].msg.kind = "success"
                   /\ ~wire[c][i].msg.thumbnail

\* The extractor runs for the job of h: download_audio stands in one of its
\* two calls of ydl.extract_info.
ExtractorRuns(h) == pc[h] \in { "info", "download" }

\* C15: a Job has one of the four statuses, it is downloading while the
\* extractor runs for it, and it is completed or failed only once
\* download_audio has returned.
C15_StatusFollowsTheRun ==
    \A c \in Conns :
        HasJob(c) =>
            /\ Job(c).status \in { "created", "downloading" } \cup Terminal
            /\ ExtractorRuns(c) => Job(c).status = "downloading"
            /\ Job(c).status \in Terminal =>
                   pc[c] \in { "finally", "closing", "done" }

\* C16: in every state of the Job Store, a Job with an audio path or a
\* thumbnail path is completed, and a Job with an error is failed.
C16_FieldsMatchStatus ==
    \A k \in DOMAIN downloads :
        /\ downloads[k].mp3_path # "" \/ downloads[k].thumb_path # "" =>
               downloads[k].status = "completed"
        /\ downloads[k].error # "" => downloads[k].status = "failed"

C16_Witness ==
    \E k, l \in DOMAIN downloads :
        /\ downloads[k].status = "completed"
        /\ downloads[k].mp3_path # ""
        /\ downloads[k].thumb_path # ""
        /\ downloads[l].status = "failed"
        /\ downloads[l].error # ""

(***************************************************************************)
(* Claims about the Connection Registry.                                   *)
(***************************************************************************)
\* C17: a connection is in the registry only while its handler is past the
\* handshake and has not returned; after the handler returned, by whatever
\* way, its id is not in the registry, also when it never was registered.
C17_UnregisteredOnReturn ==
    \A c \in Conns :
        /\ Returned(c) => c \notin active_connections
        /\ c \in active_connections => pc[c] \notin { "idle", "accepting", "done" }

C17_Witness ==
    \E c, d \in Conns :
        /\ Returned(c)
        /\ resp[c] = NoResp
        /\ conn[c] = "gone"
        /\ Returned(d)
        /\ HasJob(d)
        /\ conn[d] = "closed"
        /\ active_connections = {}

\* C18: when shutdown_event has ended, it has ended by returning, and it left
\* the registry empty, whatever the handlers did while it was suspended.
C18_ShutdownEmptiesRegistry ==
    shutdown.pc \notin { "idle", "closing" } =>
        /\ shutdown.pc = "done"
        /\ shutdown.left = {}

(***************************************************************************)
(* Claims about the calls of the Job Store and of serve_file.              *)
(***************************************************************************)
\* C19: update_download(job_id, fields) leaves the record of every other Job
\* as it was and the store as long as it was; with an unknown job_id it
\* leaves the whole store as it was; it returns without an error.
C19_UpdateFrame ==
    call.fn = "update_download" =>
        /\ call.code = 0
        /\ DOMAIN downloads = DOMAIN call.before
        /\ \A k \in DOMAIN downloads :
               k # call.arg => downloads[k] = call.before[k]
        /\ call.arg \notin DOMAIN call.before => downloads = call.before

C19_Witness ==
    /\ call.fn = "update_download"
    /\ Len(downloads) = MaxJobs
    /\ call.arg \in DOMAIN downloads
    /\ downloads[call.arg] # call.before[call.arg]
    /\ downloads[call.arg].status = "failed"
    /\ \E k \in DOMAIN downloads : downloads[k].status = "completed"

\* C20: serve_file answers a name that contains "..", "/" or "\" with the
\* status 400, and has made no filesystem lookup for it.
C20_TraversalRejected ==
    /\ call.fn = "serve_file"
    /\ \E part \in { "..", "/", "\\" } : Contains(part, call.arg)
    => /\ call.code = 400
       /\ call.lookups = 0

C20_Witness ==
    /\ call.fn = "serve_file"
    /\ call.arg = "../../etc/passwd"
    /\ call.code = 400
    /\ call.lookups = 0
    /\ StoredNames # {}

(***************************************************************************)
(* Claims about the artifact storage.                                      *)
(***************************************************************************)
\* cleanup_old_files has been called: under SpecStorage no other operation
\* writes `call`.
CleanupCalled == call.fn = "cleanup_old_files"

\* C21: no run of a job removes the audio file of another job: as long as the
\* cleanup operation has not been called, the file recorded as the audio path
\* of a completed Job is in storage.
C21_CompletedArtifactStays ==
    ~CleanupCalled =>
        \A k \in DOMAIN downloads :
            downloads[k].status = "completed" =>
                downloads[k].mp3_path \in DOMAIN files
====
